---- MODULE Spec2Model ----
(***************************************************************************)
(* Model of the order execution-validation engine of the batch auction     *)
(* solver (src/src/models/order.py) and of the construction of a batch     *)
(* auction from raw instance data (src/src/models/batch_auction.py).       *)
(*                                                                         *)
(* Amounts and tolerances are Decimals in the source.  Here every amount   *)
(* and every tolerance is an integer n standing for the decimal n / Den,   *)
(* and products and quotients are compared by cross-multiplication, which  *)
(* is exact for the values the bounds admit.                               *)
(***************************************************************************)
EXTENDS Integers, Sequences, FiniteSets, TLC

\* ------------------------------------------------------------------ bounds
\* An amount n stands for n / Den; a tolerance t stands for t / Den.
Den == 2
\* Largest buy_amount / sell_amount of an order (in 1/Den units).
MaxAmount == 3
\* Largest buy_amount_value / sell_amount_value proposed to execute.
MaxValue == 6
\* Largest amount_tol (in 1/Den units).
MaxTol == 2
\* Largest xrate_tol (in 1/Den units).
MaxXTol == 1
\* Largest component amount of an exchange rate handed to is_executable.
MaxRate == 3
\* Largest factor of a fee policy record.
MaxFactor == 2
\* Largest amount of an order record of the raw instance data.
AuctionMaxAmount == 1
\* The same bounds for the calls made one after another on one order; these
\* calls all use a zero xrate_tol.
SeqMaxAmount == 2
SeqMaxValue == 2
SeqMaxTol == 1
SeqMaxRate == 1

Tokens == {"DAI", "USDC", "WETH"}
Kinds == {"sell", "buy"}

\* ------------------------------------------------------------------ state
VARIABLES
    order,                               \* the order's static terms
    exec_buy_amount,                     \* Optional[TokenBalance]
    exec_sell_amount,                    \* Optional[TokenBalance]
    RAISE_ON_MAX_SELL_AMOUNT_VIOLATION,  \* Constants flag
    RAISE_ON_LIMIT_XRATE_VIOLATION,      \* Constants flag
    call,                                \* the last call and its arguments
    result,                              \* how the last call ended
    succeeded,                           \* history: some execute call returned
    repeated,                            \* history: the last call repeated the one before
    other,                               \* Optional: the order passed to overlaps / match_type
    data,                                \* Optional: the raw instance data of from_dict
    auction,                             \* Optional: the BatchAuction that from_dict returned
    log,                                 \* history: what from_dict built and warned about
    returned                             \* Optional: the value the last accessor returned

\* The state outside a single order: idle in the specifications of one order.
auctionVars == <<other, data, auction, log, returned>>

vars == <<order, exec_buy_amount, exec_sell_amount,
          RAISE_ON_MAX_SELL_AMOUNT_VIOLATION, RAISE_ON_LIMIT_XRATE_VIOLATION,
          call, result, succeeded, repeated, auctionVars>>

\* ------------------------------------------------------- Optional values
None == <<>>
Some(x) == <<x>>
IsNone(v) == v = <<>>
Get(v) == v[1]

\* ----------------------------------------------------------- TokenBalance
TokenBalance(b, t) == [balance |-> b, token |-> t]

\* min(a, b) on two balances of the same token.
TBMin(a, b) == IF b.balance < a.balance THEN b ELSE a

\* ----------------------------------------------------------- ExchangeRate
XRate(tb1, tb2) == [tb1 |-> tb1, tb2 |-> tb2]

XRateTokens(x) == {x.tb1.token, x.tb2.token}

\* Amount of the other token per unit of `token`, as a fraction num / den.
convert_unit(x, token) ==
    IF token = x.tb1.token
    THEN [num |-> x.tb2.balance, den |-> x.tb1.balance]
    ELSE [num |-> x.tb1.balance, den |-> x.tb2.balance]

\* ------------------------------------------------------------------ Order
max_limit(o) ==
    XRate(TokenBalance(o.sell_amount, o.sell_token),
          TokenBalance(o.buy_amount, o.buy_token))

\* Variant: every order has a buy ceiling.
max_buy_amountAlways(o) == Some(TokenBalance(o.buy_amount, o.buy_token))

max_buy_amount(o) ==
    IF o.kind = "buy" THEN Some(TokenBalance(o.buy_amount, o.buy_token)) ELSE None

\* Variant: no order has a sell ceiling.
max_sell_amountNever(o) == None

max_sell_amount(o) ==
    IF o.kind = "sell" THEN Some(TokenBalance(o.sell_amount, o.sell_token)) ELSE None

\* Variant: only the first leg of the token condition is looked at.
overlapsFirstLeg(self, o) ==
    IF ~(self.buy_token = o.sell_token)
    THEN FALSE
    ELSE self.buy_amount * o.buy_amount <= o.sell_amount * self.sell_amount

\* Order.overlaps: opposite {buy|sell} tokens and matching prices.
overlaps(self, o) ==
    LET token_conditions == <<self.buy_token = o.sell_token,
                              self.sell_token = o.buy_token>>
    IN  IF ~(\A i \in 1..Len(token_conditions) : token_conditions[i])
        THEN FALSE
        ELSE self.buy_amount * o.buy_amount <= o.sell_amount * self.sell_amount

\* Variant: the second test is left out.
match_typeNoRhs(self, o) ==
    IF ~overlaps(self, o) THEN "None"
    ELSE IF self.buy_amount < o.sell_amount /\ self.sell_amount < o.buy_amount
    THEN "LhsFilled"
    ELSE "BothFilled"

\* Variant: an order that is matched exactly counts as filled on one side.
match_typeWeak(self, o) ==
    IF ~overlaps(self, o) THEN "None"
    ELSE IF self.buy_amount <= o.sell_amount /\ self.sell_amount <= o.buy_amount
    THEN "LhsFilled"
    ELSE IF self.buy_amount >= o.sell_amount /\ self.sell_amount >= o.buy_amount
    THEN "RhsFilled"
    ELSE "BothFilled"

\* Order.match_type: to what extent two orders match ("None" is Python's None).
match_type(self, o) ==
    IF ~overlaps(self, o) THEN "None"
    ELSE IF self.buy_amount < o.sell_amount /\ self.sell_amount < o.buy_amount
    THEN "LhsFilled"
    ELSE IF self.buy_amount > o.sell_amount /\ self.sell_amount > o.buy_amount
    THEN "RhsFilled"
    ELSE "BothFilled"

\* Variant: the tolerance is added instead of applied as a factor.
WithinLimitAdditive(converted_buy, converted_sell, xrate_tol) ==
    converted_buy.num * converted_sell.den * Den
        <= (converted_sell.num * Den + xrate_tol * converted_sell.den)
               * converted_buy.den

\* Variant: the bound is exclusive.
WithinLimitStrict(converted_buy, converted_sell, xrate_tol) ==
    converted_buy.num * converted_sell.den * Den
        < converted_sell.num * converted_buy.den * (Den + xrate_tol)

\* converted_buy <= converted_sell * (1 + xrate_tol), both fractions positive.
WithinLimit(converted_buy, converted_sell, xrate_tol) ==
    converted_buy.num * converted_sell.den * Den
        <= converted_sell.num * converted_buy.den * (Den + xrate_tol)

\* Variant: only the buy token has to be one of the rate's tokens.
is_executableBuyTokenOnly(o, xrate, xrate_tol) ==
    IF o.buy_token \notin {xrate.tb1.token, xrate.tb2.token} THEN "TokenMismatch"
    ELSE IF ~(xrate_tol >= 0) THEN "AssertionError"
    ELSE IF xrate.tb1.balance * o.buy_amount * Den
              <= o.sell_amount * xrate.tb2.balance * (Den + xrate_tol)
         THEN "true" ELSE "false"

\* "TokenMismatch", "AssertionError", or the boolean answer as "true"/"false".
is_executable(o, xrate, xrate_tol) ==
    IF XRateTokens(xrate) # {o.buy_token, o.sell_token} THEN "TokenMismatch"
    ELSE IF ~(xrate_tol >= 0) THEN "AssertionError"
    ELSE IF WithinLimit(convert_unit(xrate, o.buy_token),
                        convert_unit(max_limit(o), o.buy_token), xrate_tol)
         THEN "true" ELSE "false"

\* assert ... at the head of execute.
InputAssertions(buy_amount_value, sell_amount_value, buy_token_price, sell_token_price, amount_tol) ==
    /\ buy_amount_value >= -amount_tol
    /\ sell_amount_value >= -amount_tol
    /\ buy_token_price >= 0
    /\ sell_token_price >= 0

\* Variant: exceeding one of the two tolerances is enough.
LimitExceededEither(amount, max, amount_tol) ==
    \/ amount.balance * Den > max.balance * (Den + amount_tol)
    \/ amount.balance > max.balance + amount_tol

\* amount > max * (1 + amount_tol) and amount > max + TokenBalance(amount_tol)
LimitExceeded(amount, max, amount_tol) ==
    /\ amount.balance * Den > max.balance * (Den + amount_tol)
    /\ amount.balance > max.balance + amount_tol

\* Variant: only the buy amount is looked at.
IsDustBuyOnly(buy_amount, sell_amount, amount_tol) ==
    buy_amount.balance <= amount_tol

\* Variant: an amount equal to the tolerance is kept.
IsDustStrict(buy_amount, sell_amount, amount_tol) ==
    \/ buy_amount.balance < amount_tol
    \/ sell_amount.balance < amount_tol

\* (c) if any amount is very small
IsDust(buy_amount, sell_amount, amount_tol) ==
    \/ buy_amount.balance <= amount_tol
    \/ sell_amount.balance <= amount_tol

\* Variant: the amount is left as proposed.
ClampToNever(amount, max) == amount

\* amount = min(amount, max) when the order has that bound.
ClampTo(amount, max) ==
    IF IsNone(max) THEN amount ELSE TBMin(amount, Get(max))

\* The bound is set and the amount is too much above it.
CheckLimit(amount, max, amount_tol) ==
    ~IsNone(max) /\ LimitExceeded(amount, Get(max), amount_tol)

Failure(kind) == [result |-> kind, buy |-> None, sell |-> None]

\* The body of Order.execute: how the call ends and, if it returns, the
\* amounts it stores.
ExecuteOutcome(o, buy_amount_value, sell_amount_value, buy_token_price, sell_token_price, amount_tol, xrate_tol, raiseSell, raiseXRate) ==
    IF ~InputAssertions(buy_amount_value, sell_amount_value,
                        buy_token_price, sell_token_price, amount_tol)
    THEN Failure("AssertionError")
    ELSE
    LET buy0  == TokenBalance(buy_amount_value, o.buy_token)
        sell0 == TokenBalance(sell_amount_value, o.sell_token)
        xmax  == max_buy_amount(o)
        ymax  == max_sell_amount(o)
        buyErr == CheckLimit(buy0, xmax, amount_tol)
        buy1  == ClampTo(buy0, xmax)
        sellErr == CheckLimit(sell0, ymax, amount_tol) /\ raiseSell
        sell1 == ClampTo(sell0, ymax)
        dust  == IsDust(buy1, sell1, amount_tol)
        buy2  == IF dust THEN TokenBalance(0, o.buy_token) ELSE buy1
        sell2 == IF dust THEN TokenBalance(0, o.sell_token) ELSE sell1
    IN  IF buyErr THEN Failure("ExecutionLimitExceeded")
        ELSE IF sellErr THEN Failure("ExecutionLimitExceeded")
        ELSE IF buy2.balance > 0
        THEN IF ~(sell2.balance > 0) THEN Failure("AssertionError: sell_amount > 0")
             ELSE LET ok == is_executable(o, XRate(buy2, sell2), xrate_tol)
                  IN  IF ok = "false" /\ raiseXRate
                      THEN Failure("LimitPriceViolated")
                      ELSE IF ok \notin {"true", "false"} THEN Failure(ok)
                      ELSE [result |-> "ok", buy |-> Some(buy2), sell |-> Some(sell2)]
        ELSE [result |-> "ok", buy |-> Some(buy2), sell |-> Some(sell2)]

is_executed == ~IsNone(exec_buy_amount) /\ ~IsNone(exec_sell_amount)

\* ------------------------------------------------------------------ Token
\* Token strings as the input spells them, and the code point of each; "b"
\* is spelled by no input but is what "B" normalises to.
RawTokens == {"A", "B", "a"}
ord == [A |-> 65, B |-> 66, a |-> 97, b |-> 98]

\* Token(value): the normalised identity of a token string (lower case).
Token(value) ==
    IF ord[value] < ord["a"]
    THEN CHOOSE t \in DOMAIN ord : ord[t] = ord[value] + (ord["a"] - ord["A"])
    ELSE value

\* Tokens are ordered as their normalised strings are.
TokenLess(t, u) == ord[t] < ord[u]

TokenInfo(token, token_info) == [token |-> token, info |-> token_info]

\* ------------------------------------------------------------------- dict
\* A Python dict is the sequence of its items in insertion order.
HasKey(dict, k) == \E i \in 1..Len(dict) : dict[i].key = k
Keys(dict) == [i \in 1..Len(dict) |-> dict[i].key]
Lookup(dict, k) == dict[CHOOSE i \in 1..Len(dict) : dict[i].key = k].value

\* Variant: an assignment to a key that is present is dropped.
PutKeepFirst(dict, k, v) ==
    IF HasKey(dict, k) THEN dict ELSE Append(dict, [key |-> k, value |-> v])

\* dict[k] = v
Put(dict, k, v) ==
    IF HasKey(dict, k)
    THEN [i \in 1..Len(dict) |->
             IF dict[i].key = k THEN [key |-> k, value |-> v] ELSE dict[i]]
    ELSE Append(dict, [key |-> k, value |-> v])

\* The first element of the list that the set lacks, if any.
FirstMissing(list, present) ==
    IF \A i \in 1..Len(list) : list[i] \in present
    THEN None
    ELSE Some(list[CHOOSE i \in 1..Len(list) :
                      /\ list[i] \notin present
                      /\ \A j \in 1..(i - 1) : list[j] \in present])

\* ----------------------------------------------------- Order construction
\* Variant: an amount of zero is accepted.
post_initNonNegative(o) ==
    IF o.buy_token = o.sell_token
    THEN "ValueError: sell- and buy-token cannot be equal!"
    ELSE IF ~(o.buy_amount >= 0 /\ o.sell_amount >= 0)
    THEN "ValueError: buy and sell amounts must be positive!"
    ELSE "ok"

\* Order.__post_init__
post_init(o) ==
    IF o.buy_token = o.sell_token
    THEN "ValueError: sell- and buy-token cannot be equal!"
    ELSE IF ~(o.buy_amount > 0 /\ o.sell_amount > 0)
    THEN "ValueError: buy and sell amounts must be positive!"
    ELSE "ok"

required_attributes ==
    <<"uid", "sell_token", "buy_token", "sell_amount", "buy_amount", "kind",
      "partially_fillable", "class_">>

\* A fee policy object: the class it is an instance of, and its fields.
FeePolicy(variant, kind, factor, max_volume_factor, quote) == [variant |-> variant, kind |-> kind, factor |-> factor, max_volume_factor |-> max_volume_factor, quote |-> quote]

\* The second case pattern of FeePolicyBase.from_dict: looking up
\* PriceImprovement.priceImprovement raises, because the dataclass has no
\* such class attribute.
PriceImprovementPattern ==
    "AttributeError: type object 'PriceImprovement' has no attribute 'priceImprovement'"

\* FeePolicyBase.from_dict(data): the cases of the match statement are tried
\* in turn, and a value pattern is looked up when its case is tried.
FeePolicyBase_from_dict(fee) ==
    IF fee.kind = "surplus"
    THEN [result |-> "ok",
          policy |-> Some(FeePolicy("SurplusFee", fee.kind, fee.factor,
                                    fee.max_volume_factor, None))]
    ELSE [result |-> PriceImprovementPattern, policy |-> None]

\* [FeePolicyBase.from_dict(obj) for obj in data['fee_policies']]: the list,
\* or the error of the first record that raises.
load_fee_policies(fees) ==
    LET outs == [i \in 1..Len(fees) |-> FeePolicyBase_from_dict(fees[i])]
        bad == {i \in 1..Len(outs) : outs[i].result # "ok"}
    IN  IF bad = {}
        THEN [result |-> "ok", policies |-> [i \in 1..Len(outs) |-> Get(outs[i].policy)]]
        ELSE [result |-> outs[CHOOSE i \in bad : \A j \in bad : i <= j].result,
              policies |-> <<>>]

\* Order.from_dict(data): the order, or the error it raises.  The arguments
\* of Order(...), the fee policies among them, are built before
\* __post_init__ runs.
Order_from_dict(rec) ==
    LET missing == FirstMissing(required_attributes, rec.attrs)
        fees == IF "fee_policies" \in rec.attrs
                THEN load_fee_policies(rec.fee_policies)
                ELSE [result |-> "ok", policies |-> <<>>]
        o == [order_id |-> rec.uid,
              fee_policies |-> fees.policies,
              buy_token |-> Token(rec.buy_token),
              sell_token |-> Token(rec.sell_token),
              buy_amount |-> rec.buy_amount,
              sell_amount |-> rec.sell_amount,
              kind |-> rec.kind,
              exec_buy_amount |-> None,
              exec_sell_amount |-> None]
    IN  IF ~IsNone(missing)
        THEN [result |-> "ValueError: Missing field '" \o Get(missing) \o "' in order!",
              order |-> None]
        ELSE IF fees.result # "ok"
        THEN [result |-> fees.result, order |-> None]
        ELSE IF post_init(o) # "ok"
        THEN [result |-> post_init(o), order |-> None]
        ELSE [result |-> "ok", order |-> Some(o)]

\* ------------------------------------------------------------ BatchAuction
\* load_tokens: the loop over the sorted items, with the warnings it logs.
RECURSIVE load_tokensLoop(_, _)
load_tokensLoop(items, acc) ==
    IF items = <<>>
    THEN acc
    ELSE LET token_str == Head(items)
             token == Token(token_str)
             token_info == token_str
         IN  load_tokensLoop(Tail(items),
                [tokens_dict |-> Put(acc.tokens_dict, token, TokenInfo(token, token_info)),
                 warnings |-> IF HasKey(acc.tokens_dict, token)
                              THEN Append(acc.warnings, token)
                              ELSE acc.warnings])

\* load_tokens(tokens_serialized): the argument is the sequence of the keys
\* of the token section in the order of the input, and the record stored
\* under a key is identified with the key.
load_tokens(tokens_serialized) ==
    load_tokensLoop(SortSeq(tokens_serialized, LAMBDA t, u : ord[t] < ord[u]),
                    [tokens_dict |-> <<>>, warnings |-> <<>>])

\* load_orders(orders_serialized): the list comprehension stops at the first
\* record whose Order.from_dict raises.
load_orders(orders_serialized) ==
    LET outs == [i \in 1..Len(orders_serialized) |-> Order_from_dict(orders_serialized[i])]
        bad == {i \in 1..Len(outs) : outs[i].result # "ok"}
    IN  IF bad = {}
        THEN [result |-> "ok", orders |-> [i \in 1..Len(outs) |-> Get(outs[i].order)]]
        ELSE LET first == CHOOSE i \in bad : \A j \in bad : i <= j
             IN  [result |-> outs[first].result,
                  orders |-> [i \in 1..(first - 1) |-> Get(outs[i].order)]]

\* Uniswap.from_dict(pool_id, amm_dict): a pool, or None for a liquidity
\* record that is no supported constant-product pool.
Uniswap_from_dict(pool_id, amm_dict) ==
    IF amm_dict.supported
    THEN Some([pool_id |-> pool_id,
               tokens |-> {Token(amm_dict.tokens[i]) : i \in 1..Len(amm_dict.tokens)}])
    ELSE None

\* Variant: a pool id that is present is overwritten.
AddPoolOverwrite(results, uni) ==
    [result |-> "ok", dict |-> Put(results.dict, uni.pool_id, uni)]

\* The body of the second loop of load_amms.
AddPool(results, uni) ==
    IF HasKey(results.dict, uni.pool_id)
    THEN [result |-> "ValueError: Uniswap pool_id <" \o uni.pool_id \o "> already exists!",
          dict |-> results.dict]
    ELSE [result |-> "ok", dict |-> Put(results.dict, uni.pool_id, uni)]

RECURSIVE load_ammsLoop(_, _)
load_ammsLoop(amm_list, results) ==
    IF amm_list = <<>> \/ results.result # "ok"
    THEN results
    ELSE load_ammsLoop(Tail(amm_list), AddPool(results, Head(amm_list)))

\* load_amms(amms_serialized): amm_list keeps the pools that are not None.
load_amms(amms_serialized) ==
    LET amms == [i \in 1..Len(amms_serialized) |->
                    Uniswap_from_dict(amms_serialized[i].id, amms_serialized[i])]
        kept == SelectSeq(amms, LAMBDA amm : ~IsNone(amm))
        amm_list == [i \in 1..Len(kept) |-> Get(kept[i])]
        out == load_ammsLoop(amm_list, [result |-> "ok", dict |-> <<>>])
    IN  [result |-> out.result, dict |-> out.dict, amm_list |-> amm_list]

\* The keys that BatchAuction.from_dict looks for before it loads anything.
MandatoryKeys == <<"tokens", "orders", "liquidity", "effective_gas_price", "deadline">>

\* What from_dict built before it returned or raised.
Built(tokens, orders, pools) == [tokens |-> tokens, orders |-> orders, pools |-> pools]

FromDictFailure(msg, built, warnings) ==
    [result |-> msg, auction |-> None, built |-> built, warnings |-> warnings]

\* BatchAuction.from_dict(data): the auction, or the error raised, with what
\* had been built by then.  The values of effective_gas_price and deadline
\* are well-formed whenever they are present.
from_dict(d) ==
    LET missing == FirstMissing(MandatoryKeys, d.keys)
        tokens == load_tokens(d.tokens)
        orders == load_orders(d.orders)
        uniswaps == load_amms(d.liquidity)
        nt == Len(tokens.tokens_dict)
        no == Len(orders.orders)
        np == Len(uniswaps.amm_list)
    IN  IF ~IsNone(missing)
        THEN FromDictFailure("ValueError: Mandatory field '" \o Get(missing)
                                \o "' missing in instance data!",
                             Built(0, 0, 0), <<>>)
        ELSE IF orders.result # "ok"
        THEN FromDictFailure(orders.result, Built(nt, no, 0), tokens.warnings)
        ELSE IF uniswaps.result # "ok"
        THEN FromDictFailure(uniswaps.result, Built(nt, no, np), tokens.warnings)
        ELSE IF "id" \notin d.keys
        THEN FromDictFailure("KeyError: 'id'", Built(nt, no, np), tokens.warnings)
        ELSE [result |-> "ok",
              auction |-> Some([_id |-> d.id,
                                _tokens |-> tokens.tokens_dict,
                                _orders |-> orders.orders,
                                _uniswaps |-> uniswaps.dict]),
              built |-> Built(nt, no, np),
              warnings |-> tokens.warnings]

\* Variant: the keys are returned in the order of the mapping.
tokensUnsorted(a) == Keys(a._tokens)

\* BatchAuction.tokens: access to the (sorted) token list.
tokens(a) == SortSeq(Keys(a._tokens), TokenLess)

\* BatchAuction.orders: _orders is the list that load_orders returned, and a
\* list has no values().
orders(a) ==
    [result |-> "AttributeError: 'list' object has no attribute 'values'",
     value |-> None]

\* BatchAuction.token_info(token)
token_info(a, token) ==
    IF ~(\E i \in 1..Len(tokens(a)) : tokens(a)[i] = token)
    THEN [result |-> "ValueError: Token <" \o token \o "> not in batch auction!",
          value |-> None]
    ELSE [result |-> "ok", value |-> Some(Lookup(a._tokens, token))]

\* --------------------------------------------------------------- inputs
Orders(maxAmount) ==
    [kind : Kinds, buy_token : {"DAI"}, sell_token : {"USDC"},
     buy_amount : 1..maxAmount, sell_amount : 1..maxAmount]
Rates(maxRate) ==
    {XRate(TokenBalance(a, t), TokenBalance(b, u)) :
        a \in 1..maxRate, b \in 1..maxRate, t \in Tokens, u \in Tokens}

NoRate == XRate(TokenBalance(0, "DAI"), TokenBalance(0, "DAI"))

ExecuteCall(b, s, at, xt) ==
    [op |-> "execute", buy |-> b, sell |-> s, amount_tol |-> at,
     xrate_tol |-> xt, xrate |-> NoRate]

IsExecutableCall(x, xt) ==
    [op |-> "is_executable", buy |-> 0, sell |-> 0, amount_tol |-> 0,
     xrate_tol |-> xt, xrate |-> x]

\* Nothing built, nothing warned about.
NoLog == [built |-> [tokens |-> 0, orders |-> 0, pools |-> 0], warnings |-> <<>>]

NoCall ==
    [op |-> "none", buy |-> 0, sell |-> 0, amount_tol |-> 0,
     xrate_tol |-> 0, xrate |-> NoRate]

\* ------------------------------------------------------------------ Init
\* An order as Order.__post_init__ leaves it: distinct tokens, positive
\* amounts, no execution recorded.
InitOrder(maxAmount) ==
    /\ order \in Orders(maxAmount)
    /\ exec_buy_amount = None
    /\ exec_sell_amount = None
    /\ RAISE_ON_MAX_SELL_AMOUNT_VIOLATION \in BOOLEAN
    /\ RAISE_ON_LIMIT_XRATE_VIOLATION \in BOOLEAN
    /\ call = NoCall
    /\ result = "none"
    /\ succeeded = FALSE
    /\ repeated = FALSE
    /\ other = None
    /\ data = None
    /\ auction = None
    /\ log = NoLog
    /\ returned = None

Init == InitOrder(SeqMaxAmount)

InitCall == InitOrder(MaxAmount)

\* --------------------------------------------------------------- actions
\* Variant: an execution of nothing is not recorded.
CommitNonZero(out) ==
    IF Get(out.buy).balance = 0
    THEN exec_buy_amount' = None /\ exec_sell_amount' = None
    ELSE exec_buy_amount' = out.buy /\ exec_sell_amount' = out.sell

\* Variant: a later execution is added to the recorded one.
CommitAccumulate(out) ==
    IF IsNone(exec_buy_amount)
    THEN exec_buy_amount' = out.buy /\ exec_sell_amount' = out.sell
    ELSE /\ exec_buy_amount' = Some(TokenBalance(
                Get(exec_buy_amount).balance + Get(out.buy).balance,
                Get(out.buy).token))
         /\ exec_sell_amount' = Some(TokenBalance(
                Get(exec_sell_amount).balance + Get(out.sell).balance,
                Get(out.sell).token))

\* Variant: only the buy amount is stored.
CommitBuyOnly(out) ==
    /\ exec_buy_amount' = out.buy
    /\ exec_sell_amount' = exec_sell_amount

\* Store execution information (the last two statements of execute).
Commit(out) ==
    /\ exec_buy_amount' = out.buy
    /\ exec_sell_amount' = out.sell

\* order.execute(buy_amount_value, sell_amount_value, buy_token_price,
\*               sell_token_price, amount_tol, xrate_tol)
\* with the arguments drawn from the given sets.
ExecuteWith(values, prices, tols, xtols) ==
    /\ \E b \in values, s \in values, bp \in prices, sp \in prices,
          at \in tols, xt \in xtols :
         LET out == ExecuteOutcome(order, b, s, bp, sp, at, xt,
                                   RAISE_ON_MAX_SELL_AMOUNT_VIOLATION,
                                   RAISE_ON_LIMIT_XRATE_VIOLATION)
         IN  /\ call' = ExecuteCall(b, s, at, xt)
             /\ repeated' = (call = ExecuteCall(b, s, at, xt))
             /\ result' = out.result
             /\ IF out.result = "ok"
                THEN Commit(out) /\ succeeded' = TRUE
                ELSE UNCHANGED <<exec_buy_amount, exec_sell_amount, succeeded>>
    /\ UNCHANGED <<order, RAISE_ON_MAX_SELL_AMOUNT_VIOLATION,
                   RAISE_ON_LIMIT_XRATE_VIOLATION, auctionVars>>

\* order.is_executable(xrate, xrate_tol) on a well-formed exchange rate.
IsExecutableWith(rates, xtols) ==
    /\ \E x \in rates, xt \in xtols :
         /\ x.tb1.token # x.tb2.token
         /\ call' = IsExecutableCall(x, xt)
         /\ repeated' = (call = IsExecutableCall(x, xt))
         /\ result' = is_executable(order, x, xt)
    /\ UNCHANGED <<order, exec_buy_amount, exec_sell_amount, succeeded,
                   RAISE_ON_MAX_SELL_AMOUNT_VIOLATION,
                   RAISE_ON_LIMIT_XRATE_VIOLATION, auctionVars>>

\* Calls made one after another on the same order.
Execute == ExecuteWith((0 - 1)..SeqMaxValue, {0}, 0..SeqMaxTol, {0})

IsExecutable == IsExecutableWith(Rates(SeqMaxRate), {0})

Next == Execute \/ IsExecutable

Spec == Init /\ [][Next]_vars

\* One call on a freshly constructed order, over the wide input sets.
Fresh == call.op = "none"

ExecuteOnce == Fresh /\ ExecuteWith((0 - 1)..MaxValue, {-1, 0}, 0..MaxTol, 0..MaxXTol)

IsExecutableOnce == Fresh /\ IsExecutableWith(Rates(MaxRate), 0..MaxXTol)

NextCall == ExecuteOnce \/ IsExecutableOnce

SpecCall == InitCall /\ [][NextCall]_vars

\* ------------------------------------------------- matching two orders
\* Orders over all pairs of distinct tokens; overlaps and match_type read
\* only the tokens and the amounts.
MatchOrders ==
    {o \in [kind : {"sell"}, buy_token : Tokens, sell_token : Tokens,
            buy_amount : 1..MaxAmount, sell_amount : 1..MaxAmount] :
        o.buy_token # o.sell_token}

MatchCall(op) == [NoCall EXCEPT !.op = op]

InitMatch ==
    /\ order \in MatchOrders
    /\ exec_buy_amount = None
    /\ exec_sell_amount = None
    /\ RAISE_ON_MAX_SELL_AMOUNT_VIOLATION = TRUE
    /\ RAISE_ON_LIMIT_XRATE_VIOLATION = TRUE
    /\ call = NoCall
    /\ result = "none"
    /\ succeeded = FALSE
    /\ repeated = FALSE
    /\ other = None
    /\ data = None
    /\ auction = None
    /\ log = NoLog
    /\ returned = None

\* order.overlaps(o)
Overlaps ==
    /\ \E o \in MatchOrders :
         /\ other' = Some(o)
         /\ call' = MatchCall("overlaps")
         /\ result' = IF overlaps(order, o) THEN "true" ELSE "false"
    /\ UNCHANGED <<order, exec_buy_amount, exec_sell_amount, succeeded, repeated,
                   RAISE_ON_MAX_SELL_AMOUNT_VIOLATION,
                   RAISE_ON_LIMIT_XRATE_VIOLATION, data, auction, log, returned>>

\* order.match_type(o)
MatchType ==
    /\ \E o \in MatchOrders :
         /\ other' = Some(o)
         /\ call' = MatchCall("match_type")
         /\ result' = match_type(order, o)
    /\ UNCHANGED <<order, exec_buy_amount, exec_sell_amount, succeeded, repeated,
                   RAISE_ON_MAX_SELL_AMOUNT_VIOLATION,
                   RAISE_ON_LIMIT_XRATE_VIOLATION, data, auction, log, returned>>

NextMatch == Overlaps \/ MatchType

SpecMatch == InitMatch /\ [][NextMatch]_vars

\* ------------------------------------------------- building an auction
AllKeys == {"id", "tokens", "orders", "liquidity", "effective_gas_price", "deadline"}
AllAttrs == {required_attributes[i] : i \in 1..Len(required_attributes)}
Uids == {"o1", "o2"}
PoolIds == {"p1", "p2"}

\* Raw order records with every attribute: every spelling of the two
\* tokens, amounts from zero up.
CompleteOrderRecs(maxAmount) ==
    [attrs : {AllAttrs}, uid : Uids,
     sell_token : RawTokens, buy_token : RawTokens,
     sell_amount : 0..maxAmount, buy_amount : 0..maxAmount,
     kind : {"sell"}]

SoundRec(uid) ==
    [attrs |-> AllAttrs, uid |-> uid, sell_token |-> "A", buy_token |-> "B",
     sell_amount |-> 1, buy_amount |-> 1, kind |-> "sell"]

\* Records that lack one required attribute or carry a negative amount.
DefectiveOrderRecs ==
    {[SoundRec(uid) EXCEPT !.attrs = AllAttrs \ {attr}] : uid \in Uids, attr \in AllAttrs}
    \cup {[SoundRec(uid) EXCEPT !.buy_amount = 0 - 1] : uid \in Uids}
    \cup {[SoundRec(uid) EXCEPT !.sell_amount = 0 - 1] : uid \in Uids}

OrderRecs(maxAmount) == CompleteOrderRecs(maxAmount) \cup DefectiveOrderRecs

\* The records from which Order.from_dict makes an order.
ValidOrderRecs(maxAmount) ==
    {r \in OrderRecs(maxAmount) :
        /\ r.attrs = AllAttrs
        /\ Token(r.buy_token) # Token(r.sell_token)
        /\ r.buy_amount > 0 /\ r.sell_amount > 0}

PoolRecs == [id : PoolIds, supported : BOOLEAN, tokens : {<<"A", "B">>}]

UpToOne(S) == {<<>>} \cup {<<x>> : x \in S}
UpToTwo(S) == UpToOne(S) \cup {<<x, y>> : x \in S, y \in S}

\* The key sequences of a dict over the given keys: no key twice.
DistinctSeqs(S) ==
    UNION {{f \in [1..n -> S] : \A i \in 1..n, j \in 1..n : f[i] = f[j] => i = j} :
              n \in 0..Cardinality(S)}

BaseData ==
    [keys |-> AllKeys, id |-> "auction-1", tokens |-> <<"A", "B">>,
     orders |-> <<>>, liquidity |-> <<>>]

\* Instance data that varies the order section, ...
OrderInputs(maxAmount) ==
    {[BaseData EXCEPT !.orders = os] : os \in UpToTwo(OrderRecs(maxAmount))}

\* ... the token section, against the tokens of one order and one pool, ...
TokenInputs(maxAmount) ==
    {[BaseData EXCEPT !.tokens = ts, !.orders = os, !.liquidity = ps] :
        ts \in DistinctSeqs(RawTokens), os \in UpToOne(ValidOrderRecs(maxAmount)),
        ps \in UpToOne(PoolRecs)}

\* ... and the keys that are present and the liquidity section.
PoolInputs ==
    {[BaseData EXCEPT !.keys = ks, !.liquidity = ps] :
        ks \in SUBSET AllKeys, ps \in UpToTwo(PoolRecs)}

AuctionInputs(maxAmount) ==
    OrderInputs(maxAmount) \cup TokenInputs(maxAmount) \cup PoolInputs

AuctionCall(op) == [NoCall EXCEPT !.op = op]

InitAuction ==
    /\ order = None
    /\ exec_buy_amount = None
    /\ exec_sell_amount = None
    /\ RAISE_ON_MAX_SELL_AMOUNT_VIOLATION = TRUE
    /\ RAISE_ON_LIMIT_XRATE_VIOLATION = TRUE
    /\ call = NoCall
    /\ result = "none"
    /\ succeeded = FALSE
    /\ repeated = FALSE
    /\ other = None
    /\ data \in {Some(d) : d \in AuctionInputs(AuctionMaxAmount)}
    /\ auction = None
    /\ log = NoLog
    /\ returned = None

\* What the calls on an auction leave alone.
orderVars == <<order, exec_buy_amount, exec_sell_amount, succeeded, repeated, RAISE_ON_MAX_SELL_AMOUNT_VIOLATION, RAISE_ON_LIMIT_XRATE_VIOLATION, other>>

\* BatchAuction.from_dict(data), called once on the instance data.
FromDict ==
    /\ call.op = "none"
    /\ \E out \in {from_dict(Get(data))} :
           /\ call' = AuctionCall("from_dict")
           /\ result' = out.result
           /\ auction' = out.auction
           /\ log' = [built |-> out.built, warnings |-> out.warnings]
    /\ UNCHANGED <<orderVars, data, returned>>

\* auction.tokens
TokensAccessor ==
    /\ ~IsNone(auction)
    /\ call' = AuctionCall("tokens")
    /\ result' = "ok"
    /\ returned' = Some(tokens(Get(auction)))
    /\ UNCHANGED <<orderVars, data, auction, log>>

\* auction.orders
OrdersAccessor ==
    /\ ~IsNone(auction)
    /\ call' = AuctionCall("orders")
    /\ result' = orders(Get(auction)).result
    /\ returned' = orders(Get(auction)).value
    /\ UNCHANGED <<orderVars, data, auction, log>>

\* auction.token_info(Token(raw))
GetTokenInfo ==
    /\ ~IsNone(auction)
    /\ \E raw \in RawTokens :
         /\ call' = AuctionCall("token_info")
         /\ result' = token_info(Get(auction), Token(raw)).result
         /\ returned' = token_info(Get(auction), Token(raw)).value
    /\ UNCHANGED <<orderVars, data, auction, log>>

\* execute on one of the orders that the auction holds, with zero prices
\* and zero tolerances: each amount proposed is zero or the order's own.
ExecuteOrder ==
    /\ ~IsNone(auction)
    /\ \E i \in 1..Len(Get(auction)._orders) :
       \E b \in {0, Get(auction)._orders[i].buy_amount},
          s \in {0, Get(auction)._orders[i].sell_amount} :
         LET a == Get(auction)
             out == ExecuteOutcome(a._orders[i], b, s, 0, 0, 0, 0,
                                   RAISE_ON_MAX_SELL_AMOUNT_VIOLATION,
                                   RAISE_ON_LIMIT_XRATE_VIOLATION)
         IN  /\ call' = AuctionCall("execute_order")
             /\ result' = out.result
             /\ returned' = None
             /\ auction' = IF out.result = "ok"
                           THEN Some([a EXCEPT !._orders[i].exec_buy_amount = out.buy,
                                               !._orders[i].exec_sell_amount = out.sell])
                           ELSE auction
    /\ UNCHANGED <<orderVars, data, log>>

NextAuction ==
    FromDict \/ TokensAccessor \/ OrdersAccessor \/ GetTokenInfo \/ ExecuteOrder

SpecAuction == InitAuction /\ [][NextAuction]_vars

\* ----------------------------------------- loading one order record
\* Fee policy records with the fields that their kind carries.
FeeRecs(maxFactor) ==
    [kind : {"surplus"}, factor : 1..maxFactor,
     max_volume_factor : {Some(f) : f \in 1..maxFactor}, quote : {None}]
    \cup [kind : {"priceImprovement"}, factor : 1..maxFactor,
          max_volume_factor : {Some(f) : f \in 1..maxFactor},
          quote : {None, Some([sell_amount |-> 1, buy_amount |-> 1])}]
    \cup [kind : {"volume"}, factor : 1..maxFactor,
          max_volume_factor : {None}, quote : {None}]

\* A sound order record, without fee policies or with up to two of them.
FeeOrderRecs(maxFactor) ==
    {SoundRec("o1")}
    \cup {[attrs |-> AllAttrs \cup {"fee_policies"}, uid |-> "o1",
           sell_token |-> "A", buy_token |-> "B", sell_amount |-> 1,
           buy_amount |-> 1, kind |-> "sell", fee_policies |-> fees] :
             fees \in UpToTwo(FeeRecs(maxFactor))}

InitLoad ==
    /\ order = None
    /\ exec_buy_amount = None
    /\ exec_sell_amount = None
    /\ RAISE_ON_MAX_SELL_AMOUNT_VIOLATION = TRUE
    /\ RAISE_ON_LIMIT_XRATE_VIOLATION = TRUE
    /\ call = NoCall
    /\ result = "none"
    /\ succeeded = FALSE
    /\ repeated = FALSE
    /\ other = None
    /\ data \in {Some(rec) : rec \in FeeOrderRecs(MaxFactor)}
    /\ auction = None
    /\ log = NoLog
    /\ returned = None

\* Order.from_dict(data) on the order record.
LoadOrder ==
    /\ call' = AuctionCall("Order.from_dict")
    /\ result' = Order_from_dict(Get(data)).result
    /\ returned' = Order_from_dict(Get(data)).order
    /\ UNCHANGED <<orderVars, data, auction, log>>

NextLoad == LoadOrder

SpecLoad == InitLoad /\ [][NextLoad]_vars

TypeOK ==
    /\ succeeded \in BOOLEAN
    /\ result \in STRING
    /\ call.op \in STRING
    /\ Len(data) <= 1 /\ Len(auction) <= 1 /\ Len(returned) <= 1 /\ Len(other) <= 1

\* ================================================================ claims
Strict == RAISE_ON_MAX_SELL_AMOUNT_VIOLATION /\ RAISE_ON_LIMIT_XRATE_VIOLATION
Lenient == ~RAISE_ON_MAX_SELL_AMOUNT_VIOLATION /\ ~RAISE_ON_LIMIT_XRATE_VIOLATION

LastExecute == call.op = "execute"
Returned == LastExecute /\ result = "ok"
PassedInput == LastExecute /\ result # "AssertionError"

ExecBuy == Get(exec_buy_amount).balance
ExecSell == Get(exec_sell_amount).balance

Min(a, b) == IF a < b THEN a ELSE b

\* The proposed amounts of the last call after the clamp to the order's
\* ceiling, written out in plain arithmetic.
ClampedBuy == IF order.kind = "buy" THEN Min(call.buy, order.buy_amount) ELSE call.buy
ClampedSell == IF order.kind = "sell" THEN Min(call.sell, order.sell_amount) ELSE call.sell
AnyDust == ClampedBuy <= call.amount_tol \/ ClampedSell <= call.amount_tol

\* amount exceeds max by more than tol relatively, resp. absolutely
ExceedsRel(amount, max, tol) == amount * Den > max * (Den + tol)
ExceedsAbs(amount, max, tol) == amount > max + tol

\* sell per unit of buy is above the order's limit times (1 + tol)
RateViolates(buy, sell, tol) ==
    sell * order.buy_amount * Den > order.sell_amount * buy * (Den + tol)

\* C1: whatever calls were made, a recorded execution never exceeds the
\* order's ceiling: exec_buy_amount <= buy_amount for a buy order and
\* exec_sell_amount <= sell_amount for a sell order.
C1_CeilingRespected ==
    is_executed =>
        /\ order.kind = "buy" => ExecBuy <= order.buy_amount
        /\ order.kind = "sell" => ExecSell <= order.sell_amount

\* A proposed amount above the ceiling was committed, clamped to the ceiling.
C1_Witness ==
    /\ Returned
    /\ \/ order.kind = "buy" /\ call.buy > order.buy_amount
          /\ ExecBuy = order.buy_amount
       \/ order.kind = "sell" /\ call.sell > order.sell_amount
          /\ ExecSell = order.sell_amount

\* C2: when limit-price violations are raised (strict mode), an execution
\* committed with a positive buy amount has a rate within the order's limit
\* times (1 + xrate_tol), and a call whose clamped, non-dust amounts violate
\* that limit ends with LimitPriceViolated.
C2_StrictLimitPrice ==
    (RAISE_ON_LIMIT_XRATE_VIOLATION /\ LastExecute) =>
        /\ (result = "ok" /\ ExecBuy > 0) =>
               ~RateViolates(ExecBuy, ExecSell, call.xrate_tol)
        /\ (PassedInput /\ result # "ExecutionLimitExceeded" /\ ~AnyDust)
               => (result = "LimitPriceViolated"
                     <=> RateViolates(ClampedBuy, ClampedSell, call.xrate_tol))
        /\ result = "LimitPriceViolated" => ~AnyDust

\* Strict mode committed a fill priced above the limit but within tolerance.
C2_Witness ==
    /\ Strict /\ Returned /\ ExecBuy > 0
    /\ RateViolates(ExecBuy, ExecSell, 0)
    /\ call.sell > ExecSell

\* C3: if either clamped amount is <= amount_tol both committed amounts are
\* zero, and a recorded execution is never one-sided.
C3_DustRule ==
    /\ Returned => (AnyDust => ExecBuy = 0 /\ ExecSell = 0)
    /\ is_executed => (ExecBuy = 0 <=> ExecSell = 0)

\* Only the sell side was dust and both sides were zeroed.
C3_Witness ==
    /\ Returned
    /\ ClampedBuy > call.amount_tol /\ ClampedSell <= call.amount_tol
    /\ ExecBuy = 0 /\ ExecSell = 0

\* C4: an order is executed iff some execute call has returned, it starts
\* unexecuted, and once executed it stays executed.
C4_Lifecycle ==
    /\ [](is_executed <=> succeeded)
    /\ [][is_executed => is_executed']_vars

\* A failing execute call on an order that was executed before.
C4_Witness ==
    /\ LastExecute /\ result \notin {"ok", "none"}
    /\ is_executed

\* C5: an execute call with the same arguments as the call before it ends
\* the same way and, when it returns, records the same amounts.
C5_Idempotent ==
    [][(LastExecute /\ call' = call) =>
          /\ result' = result
          /\ result = "ok" => /\ exec_buy_amount' = exec_buy_amount
                              /\ exec_sell_amount' = exec_sell_amount]_vars

\* The same non-zero fill was committed twice in a row.
C5_Witness == repeated /\ Returned /\ ExecBuy > 0

\* C6: a buy order's execute ends with ExecutionLimitExceeded exactly when the
\* proposed buy amount exceeds buy_amount by more than amount_tol both
\* relatively and absolutely; otherwise the buy amount goes on clamped to
\* buy_amount.  A sell order has no buy ceiling: its buy amount is never
\* clamped and never the cause of ExecutionLimitExceeded.
C6_BuyCeiling ==
    PassedInput =>
        /\ order.kind = "buy" =>
             /\ result = "ExecutionLimitExceeded"
                  <=> /\ ExceedsRel(call.buy, order.buy_amount, call.amount_tol)
                      /\ ExceedsAbs(call.buy, order.buy_amount, call.amount_tol)
             /\ result = "ok" =>
                  ExecBuy = IF AnyDust THEN 0 ELSE Min(call.buy, order.buy_amount)
        /\ order.kind = "sell" =>
             /\ result = "ExecutionLimitExceeded" => call.sell > order.sell_amount
             /\ result = "ok" => ExecBuy = IF AnyDust THEN 0 ELSE call.buy

\* A buy order: only the absolute tolerance was exceeded, and the fill was
\* committed at the ceiling.
C6_Witness ==
    /\ Returned /\ order.kind = "buy"
    /\ ExceedsAbs(call.buy, order.buy_amount, call.amount_tol)
    /\ ~ExceedsRel(call.buy, order.buy_amount, call.amount_tol)
    /\ ExecBuy = order.buy_amount

SellExceeded ==
    /\ order.kind = "sell"
    /\ ExceedsRel(call.sell, order.sell_amount, call.amount_tol)
    /\ ExceedsAbs(call.sell, order.sell_amount, call.amount_tol)

\* C7: a sell order whose proposed sell amount exceeds sell_amount beyond both
\* tolerances: when sell violations are raised the call ends with
\* ExecutionLimitExceeded; when they are only logged it goes on with the sell
\* amount clamped to sell_amount, and the dust rule and the limit-price check
\* use the clamped value.
C7_SellCeiling ==
    (PassedInput /\ SellExceeded) =>
        /\ RAISE_ON_MAX_SELL_AMOUNT_VIOLATION => result = "ExecutionLimitExceeded"
        /\ ~RAISE_ON_MAX_SELL_AMOUNT_VIOLATION =>
             /\ result \in {"ok", "LimitPriceViolated"}
             /\ result = "LimitPriceViolated"
                  <=> /\ RAISE_ON_LIMIT_XRATE_VIOLATION
                      /\ call.buy > call.amount_tol
                      /\ order.sell_amount > call.amount_tol
                      /\ RateViolates(call.buy, order.sell_amount, call.xrate_tol)
             /\ result = "ok" =>
                  /\ ExecSell = IF call.buy <= call.amount_tol
                                   \/ order.sell_amount <= call.amount_tol
                                THEN 0 ELSE order.sell_amount
                  /\ ExecBuy = IF ExecSell = 0 THEN 0 ELSE call.buy

\* Lenient mode committed an excessive sell amount at the ceiling.
C7_Witness ==
    /\ Lenient /\ Returned /\ SellExceeded
    /\ ExecSell = order.sell_amount

\* C8 as stated: in lenient mode no call that passes the input assertions
\* ends with ExecutionLimitExceeded or LimitPriceViolated.
C8_LenientNeverFails ==
    (Lenient /\ PassedInput) => result = "ok"

\* C8 amended: in lenient mode a call that passes the input assertions never
\* ends with LimitPriceViolated; it ends with ExecutionLimitExceeded exactly
\* when the order is a buy order and the proposed buy amount exceeds buy_amount
\* beyond both tolerances; in every other case it commits an execution.
C8_LenientExceptBuyCeiling ==
    (Lenient /\ PassedInput) =>
        /\ result \in {"ok", "ExecutionLimitExceeded"}
        /\ result = "ExecutionLimitExceeded"
             <=> /\ order.kind = "buy"
                 /\ ExceedsRel(call.buy, order.buy_amount, call.amount_tol)
                 /\ ExceedsAbs(call.buy, order.buy_amount, call.amount_tol)
        /\ result = "ok" => is_executed

\* Lenient mode committed a sell order's fill that is both above the sell
\* ceiling and priced beyond the limit.
C8_Witness ==
    /\ Lenient /\ Returned /\ SellExceeded
    /\ ExecBuy > 0
    /\ RateViolates(ExecBuy, ExecSell, call.xrate_tol)

LastIsExecutable == call.op = "is_executable"
TokensMatch == {call.xrate.tb1.token, call.xrate.tb2.token}
                   = {order.buy_token, order.sell_token}

\* The rate's amount of the order's sell token and of its buy token.
RateSell == IF call.xrate.tb1.token = order.sell_token
            THEN call.xrate.tb1.balance ELSE call.xrate.tb2.balance
RateBuy == IF call.xrate.tb1.token = order.buy_token
           THEN call.xrate.tb1.balance ELSE call.xrate.tb2.balance

\* C9: on a rate over the order's two tokens is_executable answers true
\* exactly when sell-token amount per unit of buy token is at most
\* (sell_amount / buy_amount) * (1 + xrate_tol), the bound included.
C9_IsExecutable ==
    (LastIsExecutable /\ TokensMatch) =>
        /\ result \in {"true", "false"}
        /\ result = "true" <=> ~RateViolates(RateBuy, RateSell, call.xrate_tol)

\* The rate is the order's own max_limit, the tolerance is zero, the answer
\* is true.
C9_Witness ==
    /\ LastIsExecutable /\ call.xrate = max_limit(order)
    /\ call.xrate_tol = 0 /\ result = "true"

\* C10: is_executable fails with TokenMismatch, giving no answer, exactly
\* when the rate's token pair is not {buy_token, sell_token}.
C10_TokenMismatch ==
    LastIsExecutable =>
        /\ ~TokensMatch => result = "TokenMismatch"
        /\ TokensMatch => result \in {"true", "false"}

\* A rate sharing only the buy token with the order was rejected.
C10_Witness ==
    /\ LastIsExecutable /\ result = "TokenMismatch"
    /\ order.buy_token \in {call.xrate.tb1.token, call.xrate.tb2.token}

\* C20: in a call that passes the input assertions, a buy amount that is
\* positive after the clamp and the dust rule comes with a positive sell
\* amount: the assertion before the limit-price check never fails, and a
\* committed positive buy amount has a positive sell amount.
C20_PositiveBuyPositiveSell ==
    LastExecute =>
        /\ result # "AssertionError: sell_amount > 0"
        /\ (PassedInput /\ ~AnyDust) => (ClampedBuy > 0 /\ ClampedSell > 0)
        /\ (result = "ok" /\ ExecBuy > 0) => ExecSell > 0

\* A fill whose sell amount is just above a positive tolerance was committed.
C20_Witness ==
    /\ Returned /\ ExecBuy > 0
    /\ call.amount_tol > 0 /\ ExecSell = call.amount_tol + 1

\* ---------------------------------------------------------------- matching
LastOverlaps == call.op = "overlaps"
LastMatchType == call.op = "match_type"
\* The two orders of the last overlaps / match_type call.
OrderA == order
OrderB == Get(other)
OppositeLegs == OrderA.buy_token = OrderB.sell_token /\ OrderA.sell_token = OrderB.buy_token
PricesMatch == OrderA.buy_amount * OrderB.buy_amount <= OrderB.sell_amount * OrderA.sell_amount

\* C11: overlaps(a, b) returns a boolean for every pair of orders, and it is
\* true exactly when the legs are opposite and
\* a.buy_amount * b.buy_amount <= b.sell_amount * a.sell_amount; it is false
\* whenever a.buy_token differs from b.sell_token.
C11_Overlaps ==
    LastOverlaps =>
        /\ result \in {"true", "false"}
        /\ result = "true" <=> (OppositeLegs /\ PricesMatch)
        /\ OrderA.buy_token # OrderB.sell_token => result = "false"

\* Two orders with opposite legs whose limit prices meet exactly overlap.
C11_Witness ==
    /\ LastOverlaps /\ result = "true"
    /\ OrderA.buy_amount * OrderB.buy_amount = OrderB.sell_amount * OrderA.sell_amount
    /\ OrderA.buy_amount # OrderB.sell_amount

\* C12: match_type(a, b) is none exactly when the orders do not overlap; for
\* an overlapping pair it is LhsFilled when a's amounts are both strictly
\* below b's opposite amounts, RhsFilled when both are strictly above, and
\* BothFilled in every other case.
C12_MatchType ==
    LastMatchType =>
        /\ result \in {"None", "LhsFilled", "RhsFilled", "BothFilled"}
        /\ result = "None" <=> ~(OppositeLegs /\ PricesMatch)
        /\ (OppositeLegs /\ PricesMatch) =>
              /\ result = "LhsFilled" <=>
                    (OrderA.buy_amount < OrderB.sell_amount /\ OrderA.sell_amount < OrderB.buy_amount)
              /\ result = "RhsFilled" <=>
                    (OrderA.buy_amount > OrderB.sell_amount /\ OrderA.sell_amount > OrderB.buy_amount)

\* An overlapping pair in which one amount is below and the other is not:
\* neither side is the smaller one, and both are filled.
C12_Witness ==
    /\ LastMatchType /\ result = "BothFilled"
    /\ OrderA.buy_amount < OrderB.sell_amount
    /\ OrderA.sell_amount = OrderB.buy_amount

\* ------------------------------------------------------------ the auction
LastFromDict == call.op = "from_dict"
Called == call.op # "none"
Constructed == ~IsNone(auction)
TheData == Get(data)
TheAuction == Get(auction)
HasAllKeys == TheData.keys = AllKeys

\* Two order records of the instance data carry the same uid.
DuplicateUid ==
    \E i \in 1..Len(TheData.orders), j \in 1..Len(TheData.orders) :
        i # j /\ TheData.orders[i].uid = TheData.orders[j].uid

UniqueOrderIds ==
    \A i \in 1..Len(TheAuction._orders), j \in 1..Len(TheAuction._orders) :
        TheAuction._orders[i].order_id = TheAuction._orders[j].order_id => i = j

\* C13: instance data with two order records of the same uid is rejected,
\* and an auction that was constructed holds at most one order per order id.
C13_DuplicateUidFails ==
    /\ (Called /\ DuplicateUid) => ~Constructed
    /\ Constructed => UniqueOrderIds

\* The liquidity records for which a pool is built.
LoadedPools == SelectSeq(TheData.liquidity, LAMBDA rec : rec.supported)

DuplicatePoolId ==
    \E i \in 1..Len(LoadedPools), j \in 1..Len(LoadedPools) :
        i # j /\ LoadedPools[i].id = LoadedPools[j].id

DuplicatePoolError ==
    {"ValueError: Uniswap pool_id <" \o id \o "> already exists!" : id \in PoolIds}

\* Every key that is checked up front is present.
MandatoryPresent ==
    {"tokens", "orders", "liquidity", "effective_gas_price", "deadline"} \subseteq TheData.keys

AllOrdersValid == \A i \in 1..Len(TheData.orders) : TheData.orders[i] \in ValidOrderRecs(AuctionMaxAmount)

\* C14: when liquidity loading is reached, it fails with an error if two
\* loaded pools share a pool id; in an auction that was constructed the pool
\* mapping has one entry per loaded pool, under pairwise distinct pool ids.
C14_PoolIdsUnique ==
    /\ (LastFromDict /\ MandatoryPresent /\ AllOrdersValid /\ DuplicatePoolId) =>
           (~Constructed /\ result \in DuplicatePoolError)
    /\ (LastFromDict /\ result \in DuplicatePoolError) => DuplicatePoolId
    /\ Constructed =>
           /\ Len(TheAuction._uniswaps) = Len(LoadedPools)
           /\ \A i \in 1..Len(LoadedPools) :
                 /\ HasKey(TheAuction._uniswaps, LoadedPools[i].id)
                 /\ Lookup(TheAuction._uniswaps, LoadedPools[i].id).pool_id = LoadedPools[i].id
           /\ \A i \in 1..Len(TheAuction._uniswaps), j \in 1..Len(TheAuction._uniswaps) :
                 TheAuction._uniswaps[i].key = TheAuction._uniswaps[j].key => i = j

\* Two records of supported pools with the same id were rejected after both
\* pools had been built.
C14_Witness ==
    /\ LastFromDict /\ ~Constructed
    /\ result = "ValueError: Uniswap pool_id <p1> already exists!"
    /\ log.built.pools = Len(TheData.liquidity)

\* C15: if any input field that construction reads is missing, from_dict
\* fails with the error that names a missing field, and no token, order or
\* pool has been built.
C15_AllReadFieldsChecked ==
    (LastFromDict /\ TheData.keys # AllKeys) =>
        /\ ~Constructed
        /\ log.built = [tokens |-> 0, orders |-> 0, pools |-> 0]
        /\ \E key \in AllKeys \ TheData.keys :
              result = "ValueError: Mandatory field '" \o key \o "' missing in instance data!"

\* An order record that Order.from_dict must reject.
BadOrder(rec) ==
    \/ rec.attrs # AllAttrs
    \/ Token(rec.buy_token) = Token(rec.sell_token)
    \/ ~(rec.buy_amount > 0)
    \/ ~(rec.sell_amount > 0)

OrderError ==
    {"ValueError: sell- and buy-token cannot be equal!",
     "ValueError: buy and sell amounts must be positive!"}
    \cup {"ValueError: Missing field '" \o attr \o "' in order!" : attr \in AllAttrs}

\* C16: when order loading is reached and some order record has equal
\* tokens, an amount that is not strictly positive or a missing required
\* attribute, from_dict fails with the order's error and there is no auction;
\* every order of an auction has distinct tokens and positive amounts.
C16_OrderInvariants ==
    /\ (LastFromDict /\ MandatoryPresent
          /\ \E i \in 1..Len(TheData.orders) : BadOrder(TheData.orders[i])) =>
           (~Constructed /\ result \in OrderError)
    /\ Constructed =>
           \A i \in 1..Len(TheAuction._orders) :
              /\ TheAuction._orders[i].buy_token # TheAuction._orders[i].sell_token
              /\ TheAuction._orders[i].buy_amount > 0
              /\ TheAuction._orders[i].sell_amount > 0

\* The second of two order records has an amount of zero: the first order
\* had been built when loading failed.
C16_Witness ==
    /\ LastFromDict /\ ~Constructed
    /\ result = "ValueError: buy and sell amounts must be positive!"
    /\ log.built.orders = 1
    /\ TheData.orders[2].buy_amount = 0

\* The tokens of the token mapping, and the tokens that the orders and the
\* pools of the auction refer to.
MappedTokens == {TheAuction._tokens[i].key : i \in 1..Len(TheAuction._tokens)}
OrderTokens ==
    UNION {{TheAuction._orders[i].buy_token, TheAuction._orders[i].sell_token} :
              i \in 1..Len(TheAuction._orders)}
PoolTokens ==
    UNION {TheAuction._uniswaps[i].value.tokens : i \in 1..Len(TheAuction._uniswaps)}

\* C17: every token that an order or a pool of a constructed auction refers
\* to is a key of the auction's token mapping.
C17_TokenClosed ==
    Constructed => (OrderTokens \cup PoolTokens) \subseteq MappedTokens

\* The normalised tokens of the token section, and the spellings of one.
SectionTokens == {Token(TheData.tokens[i]) : i \in 1..Len(TheData.tokens)}
Spellings(token) ==
    {TheData.tokens[i] : i \in {j \in 1..Len(TheData.tokens) : Token(TheData.tokens[j]) = token}}
\* The spelling that comes last in the sorted order of the raw strings.
LastSpelling(token) ==
    CHOOSE raw \in Spellings(token) : \A r \in Spellings(token) : ord[r] <= ord[raw]
RepeatedTokens == {token \in SectionTokens : Cardinality(Spellings(token)) > 1}

\* C18: a repeated token never makes construction fail; the token mapping
\* has one entry per distinct normalised token, the entry of a repeated
\* token is the record processed last, and a warning was logged for it.
C18_TokenDedup ==
    /\ (LastFromDict /\ HasAllKeys /\ AllOrdersValid /\ ~DuplicatePoolId) => Constructed
    /\ (LastFromDict /\ MandatoryPresent) =>
           log.built.tokens = Cardinality(SectionTokens)
    /\ Constructed =>
           /\ Len(TheAuction._tokens) = Cardinality(SectionTokens)
           /\ MappedTokens = SectionTokens
           /\ \A token \in SectionTokens :
                 Lookup(TheAuction._tokens, token) = TokenInfo(token, LastSpelling(token))
           /\ {log.warnings[i] : i \in 1..Len(log.warnings)} = RepeatedTokens

\* An auction was built from a token section that spells one token twice.
C18_Witness ==
    /\ Constructed
    /\ RepeatedTokens = {"a"}
    /\ Lookup(TheAuction._tokens, "a").info = "a"
    /\ log.warnings = <<"a">>

LastTokens == call.op = "tokens"

\* C19: the tokens accessor returns the tokens of the token mapping, each
\* once, in ascending order; the list is determined by the set of tokens of
\* the token section, whatever their order there and whatever has been
\* executed.
C19_TokensSorted ==
    LastTokens =>
        LET list == Get(returned)
        IN  /\ \A i \in 1..Len(list), j \in 1..Len(list) : i < j => ord[list[i]] < ord[list[j]]
            /\ {list[i] : i \in 1..Len(list)} = SectionTokens
            /\ {list[i] : i \in 1..Len(list)} = MappedTokens

\* The accessor was read after an order was executed, on an auction whose
\* mapping holds the tokens in another order than the sorted one.
C19_Witness ==
    /\ LastTokens
    /\ Len(Get(returned)) > 1
    /\ Get(returned) # Keys(TheAuction._tokens)
    /\ \E i \in 1..Len(TheAuction._orders) : ~IsNone(TheAuction._orders[i].exec_buy_amount)

\* ------------------------------------------------------------ fee policies
LastLoad == call.op = "Order.from_dict"
HasFeePolicies == "fee_policies" \in TheData.attrs
VariantOf(kind) ==
    IF kind = "volume" THEN "VolumeFee"
    ELSE IF kind = "surplus" THEN "SurplusFee"
    ELSE "PriceImprovement"

\* C21: loading an order record with fee policies succeeds for each of the
\* three kinds, and the order's fee_policies has, in the order of the
\* record, the variant that each kind names, with that variant's fields.
C21_FeePoliciesLoaded ==
    (LastLoad /\ HasFeePolicies) =>
        /\ result = "ok"
        /\ Len(Get(returned).fee_policies) = Len(TheData.fee_policies)
        /\ \A i \in 1..Len(TheData.fee_policies) :
              LET fee == TheData.fee_policies[i]
                  policy == Get(returned).fee_policies[i]
              IN  /\ policy.variant = VariantOf(fee.kind)
                  /\ policy.kind = fee.kind
                  /\ policy.factor = fee.factor
                  /\ policy.max_volume_factor = fee.max_volume_factor
                  /\ IsNone(policy.quote) = IsNone(fee.quote)

\* ------------------------------------------------------- failing execute
\* C22: an execute call that fails (input assertion, ExecutionLimitExceeded
\* or LimitPriceViolated) leaves exec_buy_amount and exec_sell_amount as they
\* were before the call, and the two are always both set or both unset.
C22_FailureKeepsState ==
    /\ [](IsNone(exec_buy_amount) <=> IsNone(exec_sell_amount))
    /\ [][(call'.op = "execute" /\ result' # "ok") =>
             (exec_buy_amount' = exec_buy_amount /\ exec_sell_amount' = exec_sell_amount)]_vars
    /\ [][(exec_buy_amount' # exec_buy_amount \/ exec_sell_amount' # exec_sell_amount) =>
             (call'.op = "execute" /\ result' = "ok"
                /\ ~IsNone(exec_buy_amount') /\ ~IsNone(exec_sell_amount'))]_vars

\* A call that exceeded the order's limit on an order that holds a fill.
C22_Witness ==
    /\ LastExecute /\ result = "ExecutionLimitExceeded"
    /\ is_executed /\ ExecBuy > 0 /\ ExecSell > 0
    /\ call.buy > ExecBuy

\* ------------------------------------------------------ mirrored matching
\* The match type seen from the other order.
Mirrored(type) ==
    IF type = "LhsFilled" THEN "RhsFilled"
    ELSE IF type = "RhsFilled" THEN "LhsFilled"
    ELSE type

\* C23: overlaps(a, b) equals overlaps(b, a), and match_type(b, a) is the
\* mirror image of match_type(a, b): RhsFilled for LhsFilled, LhsFilled for
\* RhsFilled, BothFilled for BothFilled and none for none.
C23_MirrorConsistent ==
    /\ LastOverlaps => (result = "true" <=> overlaps(OrderB, OrderA))
    /\ LastMatchType => match_type(OrderB, OrderA) = Mirrored(result)

\* A pair in which the first order is the smaller one: the second order,
\* asked about the first, is told that its counterpart is filled.
C23_Witness ==
    /\ LastMatchType /\ result = "LhsFilled"
    /\ match_type(OrderB, OrderA) = "RhsFilled"
====
